---- MODULE Spec2Model ----
(***************************************************************************)
(* A model of AI_Deleter.py (TextHumanizerApp): the chunker, the           *)
(* post-processor, and the humanization run driven from the Tk main thread *)
(* with one background worker thread and the root.after callback queue.    *)
(*                                                                         *)
(* Text is a sequence of symbols, one per character.  EmDash and EnDash    *)
(* stand for U+2014 and U+2013, "L" for a long word of many tokens.        *)
(***************************************************************************)
EXTENDS Integers, Sequences, FiniteSets, TLC

\* ------------------------------------------------------------------ text

EmDash == "EM"
EnDash == "EN"

\* Python's \s, restricted to the whitespace the model's texts contain.
IsSpace(c) == c \in {" "}

IsDash(c) == c \in {EmDash, EnDash}

RECURSIVE SkipSpace(_, _)
\* The first index j >= i of s that holds no whitespace (Len(s)+1 if none):
\* where a greedy \s* that starts at i ends.
SkipSpace(s, i) ==
    IF i <= Len(s) /\ IsSpace(s[i]) THEN SkipSpace(s, i + 1) ELSE i

\* The regular expressions of the program, by name.  MatchEnd(p, s, i) is
\* the index after the match of p that starts at index i of s, 0 when p
\* does not match there.
MatchEnd(p, s, i) ==
    CASE p = "ws_dash_ws" ->      \* \s*[em en]\s*
            LET j == SkipSpace(s, i)
            IN  IF j <= Len(s) /\ IsDash(s[j]) THEN SkipSpace(s, j + 1) ELSE 0
      [] p = "dash" ->            \* [em en]
            IF IsDash(s[i]) THEN i + 1 ELSE 0
      [] p = "comma_comma" ->     \* ,\s*,
            IF s[i] = ","
            THEN LET j == SkipSpace(s, i + 1)
                 IN  IF j <= Len(s) /\ s[j] = "," THEN j + 1 ELSE 0
            ELSE 0
      [] p = "ws_comma_ws" ->     \* \s*,\s*
            LET j == SkipSpace(s, i)
            IN  IF j <= Len(s) /\ s[j] = "," THEN SkipSpace(s, j + 1) ELSE 0
      [] p = "comma_dot" ->       \* ,\s*\.
            IF s[i] = ","
            THEN LET j == SkipSpace(s, i + 1)
                 IN  IF j <= Len(s) /\ s[j] = "." THEN j + 1 ELSE 0
            ELSE 0
      [] p = "ws" ->              \* \s+
            IF IsSpace(s[i]) THEN SkipSpace(s, i) ELSE 0
      [] p = "sentence_end" ->    \* (?<=[.!?])\s+
            IF i > 1 /\ s[i - 1] \in {".", "!", "?"} /\ IsSpace(s[i])
            THEN SkipSpace(s, i) ELSE 0
      [] p = "comma_semi" ->      \* [,;]\s+
            IF s[i] \in {",", ";"} /\ i + 1 <= Len(s) /\ IsSpace(s[i + 1])
            THEN SkipSpace(s, i + 1) ELSE 0

RECURSIVE ReSubFrom(_, _, _, _, _)
ReSubFrom(p, repl, s, i, acc) ==
    IF i > Len(s) THEN acc
    ELSE LET e == MatchEnd(p, s, i)
         IN  IF e > 0 THEN ReSubFrom(p, repl, s, e, acc \o repl)
             ELSE ReSubFrom(p, repl, s, i + 1, Append(acc, s[i]))

\* re.sub(p, repl, s): leftmost non-overlapping matches, left to right.
ReSub(p, repl, s) == ReSubFrom(p, repl, s, 1, <<>>)

RECURSIVE ReSplitFrom(_, _, _, _, _)
ReSplitFrom(p, s, i, cur, acc) ==
    IF i > Len(s) THEN Append(acc, cur)
    ELSE LET e == MatchEnd(p, s, i)
         IN  IF e > 0 THEN ReSplitFrom(p, s, e, <<>>, Append(acc, cur))
             ELSE ReSplitFrom(p, s, i + 1, Append(cur, s[i]), acc)

\* re.split(p, s): the pieces between the matches, empty pieces included.
ReSplit(p, s) == ReSplitFrom(p, s, 1, <<>>, <<>>)

RECURSIVE RStrip(_)
RStrip(s) ==
    IF Len(s) > 0 /\ IsSpace(s[Len(s)]) THEN RStrip(SubSeq(s, 1, Len(s) - 1))
    ELSE s

\* str.strip()
Strip(s) == LET j == SkipSpace(s, 1) IN RStrip(SubSeq(s, j, Len(s)))

RECURSIVE JoinFrom(_, _, _)
JoinFrom(parts, sep, i) ==
    IF i > Len(parts) THEN <<>>
    ELSE IF i = Len(parts) THEN parts[i]
    ELSE parts[i] \o sep \o JoinFrom(parts, sep, i + 1)

\* sep.join(parts)
Join(parts, sep) == JoinFrom(parts, sep, 1)

\* The task prefix "paraphraser: " of the rewriting model; the word and its
\* colon are one symbol.
Prefix == <<"paraphraser:", " ">>

Prefixed(text) == Prefix \o text

\* ------------------------------------------------------------- tokenizer

\* The budget of split_into_chunks.
TokenLimit == 60

\* The tokenizer is an external collaborator: a text has one token per
\* symbol that is not whitespace, the task prefix has PrefixTokens, a long
\* word "L" has LongWordTokens, a medium word "M" MediumWordTokens, a word
\* "W" that is over the budget on its own HugeWordTokens, and encode()
\* appends the end-of-sequence token (add_special_tokens=True).
PrefixTokens == 4

LongWordTokens == 30

MediumWordTokens == 20

HugeWordTokens == 60

SymbolTokens(c) ==
    IF IsSpace(c) THEN 0
    ELSE IF c = "paraphraser:" THEN PrefixTokens
    ELSE IF c = "L" THEN LongWordTokens
    ELSE IF c = "M" THEN MediumWordTokens
    ELSE IF c = "W" THEN HugeWordTokens
    ELSE 1

RECURSIVE SumTokens(_, _)
SumTokens(s, i) ==
    IF i > Len(s) THEN 0 ELSE SymbolTokens(s[i]) + SumTokens(s, i + 1)

\* len(self.tokenizer.encode(text, add_special_tokens=True))
TokenCount(text) == SumTokens(text, 1) + 1

\* ---------------------------------------------------------------- chunker

RECURSIVE StripAll(_, _)
\* [s.strip() for s in sentences if s.strip()]
StripAll(pieces, i) ==
    IF i > Len(pieces) THEN <<>>
    ELSE LET t == Strip(pieces[i])
         IN  (IF Len(t) > 0 THEN <<t>> ELSE <<>>) \o StripAll(pieces, i + 1)

\* The sentences of a text: split after . ! ? followed by whitespace,
\* stripped, the empty ones dropped.
Sentences(text) == StripAll(ReSplit("sentence_end", text), 1)

\* Fault: an over-budget sentence is emitted whole (C18 must reject it).
LongSentenceChunksWhole(sentence) == <<sentence>>

\* The chunks an over-budget sentence contributes: its parts between
\* comma/semicolon-and-whitespace, each one a chunk, in both branches of
\* the part_tokens test.
LongSentenceChunks(sentence) == ReSplit("comma_semi", sentence)

\* Fault: the packing test never closes a chunk (C16 must reject it).
ExceedsLimitNever(current_tokens, num_tokens) == FALSE

\* The packing test of a sentence within budget: the sum of the
\* per-sentence counts, each taken with the prefix.
ExceedsLimit(current_tokens, num_tokens) ==
    current_tokens + num_tokens > TokenLimit

\* Fault: the pending chunk is dropped when an over-budget sentence
\* arrives (C15 must reject it).
FlushPendingDropped(chunks, current_chunk) == chunks

\* if current_chunk: chunks.append(' '.join(current_chunk))
FlushPending(chunks, current_chunk) ==
    IF Len(current_chunk) > 0
    THEN Append(chunks, Join(current_chunk, <<" ">>))
    ELSE chunks

RECURSIVE ChunkLoop(_, _, _, _, _)
\* The for loop of split_into_chunks over sentences[i..], then the flush of
\* the remaining chunk.
ChunkLoop(sentences, i, chunks, current_chunk, current_tokens) ==
    IF i > Len(sentences)
    THEN IF Len(current_chunk) > 0
         THEN Append(chunks, Join(current_chunk, <<" ">>))
         ELSE chunks
    ELSE LET sentence == sentences[i]
             num_tokens == TokenCount(Prefixed(sentence))
         IN  IF num_tokens > TokenLimit
             THEN LET flushed == FlushPending(chunks, current_chunk)
                  IN  ChunkLoop(sentences, i + 1,
                                flushed \o LongSentenceChunks(sentence), <<>>, 0)
             ELSE IF ExceedsLimit(current_tokens, num_tokens)
                  THEN ChunkLoop(sentences, i + 1,
                                 Append(chunks, Join(current_chunk, <<" ">>)),
                                 <<sentence>>, num_tokens)
                  ELSE ChunkLoop(sentences, i + 1, chunks,
                                 Append(current_chunk, sentence),
                                 current_tokens + num_tokens)

split_into_chunks(text) == ChunkLoop(Sentences(text), 1, <<>>, <<>>, 0)

\* --------------------------------------------------------- post-processor

\* The dash and comma clean-up, done when settings["remove_dashes"].
RemoveDashes(text) ==
    LET r1 == ReSub("ws_dash_ws", <<",", " ">>, text)
        r2 == ReSub("dash", <<",", " ">>, r1)
        r3 == ReSub("comma_comma", <<",">>, r2)
        r4 == ReSub("ws_comma_ws", <<",", " ">>, r3)
    IN  ReSub("comma_dot", <<".">>, r4)

\* The whitespace clean-up, always done.
CollapseSpaces(text) == Strip(ReSub("ws", <<" ">>, text))

humanize_output(text, remove_dashes) ==
    CollapseSpaces(IF remove_dashes THEN RemoveDashes(text) ELSE text)

\* ------------------------------------------------------------- the bounds

\* Changes of a setting's value (strength selector and settings window) in
\* one behaviour.
MaxEdits == 2

\* ------------------------------------------------------------- the inputs

\* What the user may have typed into the input box when pressing Humanize:
\* blank text, one sentence, and two sentences that need a chunk each.
InputTexts ==
    { <<" ">>,
      <<"a", ".">>,
      <<"L", ".", " ", "a", " ", "L", "!">> }

\* What the user may have typed into the custom-passes entry.
PassesEntries == { <<>>, <<"x">>, <<"0">>, <<"2">> }

Strengths == {"Standard", "High", "Maximum"}

\* ---------------------------------------------------------------- state

VARIABLES
    model,                \* self.model: "None" or "loaded"
    loader,               \* position of the _load_model thread
    load_model_btn,       \* state of the Load Model button
    humanize_btn,         \* state of the Humanize button
    intermediate_btn,     \* state of the Save Intermediate button
    settings,             \* self.settings
    output_text,          \* content of the output box
    progress_bar,         \* <<numerator, denominator>> of the bar's fraction
    progress_label,       \* text of the progress label
    intermediate_outputs, \* self.intermediate_outputs: references to chunk_data
    chunk_objs,           \* the chunk_data dicts of the current run, by reference
    all_outputs,          \* self.all_outputs
    worker,               \* the _process_text thread: position and locals
    after_queue,          \* callbacks queued with root.after(0, ...), in order
    edits,                \* history: settings changes made
    snapshot,             \* history: self.settings when the current run was accepted
    calls,                \* history: the generate calls of the current run
    units,                \* history: the completed (chunk, pass) units of the current run
    delivered,            \* history: <<of, current, total, message>> of the progress
                          \*          callbacks handled
                          \*          since the current run was accepted
    all_outputs_of,       \* history: the run that wrote all_outputs: "current",
                          \*          "earlier", or "none" when it is empty
    outcome,              \* history: how the current run's thread ended, "running"
                          \*          while it runs, "none" before the first run
    input_warning,        \* title of the warning box the latest Humanize request
                          \* was answered with, "none" when it was accepted
    saved_file,           \* what save_intermediate_outputs last wrote, "none" before
    last_read,            \* history: the last main-thread handler that read
                          \*          self.intermediate_outputs or self.all_outputs,
                          \*          and whether a _process_text thread was running
    fn_pc,                \* position of a direct call of a text function
    fn_arg,               \* its arguments
    fn_result             \* what it returned

ui == <<load_model_btn, humanize_btn, intermediate_btn, output_text,
        progress_bar, progress_label>>

hist == <<edits, snapshot, calls, units, delivered, all_outputs_of,
          outcome>>

\* What the export, the version selector and the warnings leave behind.
env == <<input_warning, saved_file, last_read>>

\* A text function called on its own.
direct == <<fn_pc, fn_arg, fn_result>>

vars == <<model, loader, settings, intermediate_outputs,
          chunk_objs, all_outputs, worker, after_queue, ui, hist, env, direct>>

\* The locals of a _process_text thread that has not started.
IdleWorker ==
    [pc |-> "idle", input_content |-> <<>>, strength |-> "High", passes |-> 0,
     num_beams |-> 0, repetition_penalty |-> 0, chunks |-> <<>>,
     total_chunks |-> 0, all_versions |-> <<>>, chunk_counter |-> 0,
     chunk_index |-> 0, chunk_data |-> 0, processed_chunk |-> <<>>,
     pass_num |-> 0, outputs |-> <<>>, paraphrases |-> <<>>, humanized |-> <<>>]

\* __init__ and setup_ui.
DefaultSettings ==
    [custom_passes |-> 1, remove_dashes |-> TRUE, use_custom_passes |-> FALSE,
     strength |-> "High", save_intermediate |-> TRUE]

InitProgram ==
    /\ model = "None"
    /\ loader = "idle"
    /\ load_model_btn = "normal"
    /\ humanize_btn = "disabled"
    /\ intermediate_btn = "disabled"
    /\ settings = DefaultSettings
    /\ output_text = <<>>
    /\ progress_bar = <<0, 1>>
    /\ progress_label = <<"Waiting...">>
    /\ intermediate_outputs = <<>>
    /\ chunk_objs = <<>>
    /\ all_outputs = <<>>
    /\ worker = IdleWorker
    /\ after_queue = <<>>
    /\ edits = 0
    /\ snapshot = DefaultSettings
    /\ calls = <<>>
    /\ units = <<>>
    /\ delivered = <<>>
    /\ all_outputs_of = "none"
    /\ outcome = "none"
    /\ input_warning = "none"
    /\ saved_file = "none"
    /\ last_read = [op |-> "none", worker_active |-> FALSE]

\* The application as started: no text function is called on its own.
Init ==
    /\ InitProgram
    /\ fn_pc = "none"
    /\ fn_arg = <<>>
    /\ fn_result = <<>>

\* A callback queued with root.after(0, fn, *args).  `of` is history: the
\* run whose thread queued it, "current" or "earlier" ("none" for the loader).
Callback(fn, args, of) == [fn |-> fn, args |-> args, of |-> of]

\* What belonged to the current run belongs to an earlier one once the next
\* run is accepted.
Aged(of) == IF of = "current" THEN "earlier" ELSE of

\* root.after(0, ...): Tk runs callbacks with equal delay in the order queued.
Post(queue, cb) == Append(queue, cb)

\* ------------------------------------------------------- loading the model

\* Load Model button -> load_model_thread.
load_model_thread ==
    /\ load_model_btn = "normal"
    /\ load_model_btn' = "disabled"
    /\ loader' = "loading"
    /\ UNCHANGED <<env, direct, model, settings, intermediate_outputs,
                   chunk_objs, all_outputs, worker, after_queue, humanize_btn,
                   intermediate_btn, output_text, progress_bar, progress_label,
                   hist>>

\* _load_model, first half: the tokenizer and self.model are assigned, or
\* from_pretrained raises and _model_loaded_error is queued.
LoadPretrained ==
    /\ loader = "loading"
    /\ \/ /\ model' = "loaded"
          /\ loader' = "placing"
          /\ UNCHANGED after_queue
       \/ /\ loader' = "idle"
          /\ after_queue' = Post(after_queue, Callback("_model_loaded_error", <<>>, "none"))
          /\ UNCHANGED model
    /\ UNCHANGED <<env, direct, settings, intermediate_outputs, chunk_objs,
                   all_outputs, worker, ui, hist>>

\* _load_model, second half: model.to(device) and model.eval(), then
\* _model_loaded_success is queued; or they raise.
LoadPlace ==
    /\ loader = "placing"
    /\ loader' = "idle"
    /\ \/ after_queue' = Post(after_queue, Callback("_model_loaded_success", <<>>, "none"))
       \/ after_queue' = Post(after_queue, Callback("_model_loaded_error", <<>>, "none"))
    /\ UNCHANGED <<env, direct, model, settings, intermediate_outputs,
                   chunk_objs, all_outputs, worker, ui, hist>>

\* The main loop runs the callback at the head of the queue.
Due(fn) == after_queue # <<>> /\ Head(after_queue).fn = fn

_model_loaded_success ==
    /\ Due("_model_loaded_success")
    /\ after_queue' = Tail(after_queue)
    /\ load_model_btn' = "disabled"
    /\ humanize_btn' = "normal"
    /\ intermediate_btn' = "normal"
    /\ UNCHANGED <<env, direct, model, loader, settings, intermediate_outputs, chunk_objs, all_outputs, worker,
                   output_text, progress_bar, progress_label, hist>>

_model_loaded_error ==
    /\ Due("_model_loaded_error")
    /\ after_queue' = Tail(after_queue)
    /\ load_model_btn' = "normal"
    /\ UNCHANGED <<env, direct, model, loader, settings, intermediate_outputs, chunk_objs, all_outputs, worker,
                   humanize_btn, intermediate_btn, output_text, progress_bar,
                   progress_label, hist>>

\* ------------------------------------------------------------- the settings

\* Strength selector of the main window -> update_strength(value).
\* Selecting the strength already set changes nothing and is left out.
update_strength(value) ==
    /\ edits < MaxEdits
    /\ value # settings.strength
    /\ settings' = [settings EXCEPT !.strength = value]
    /\ edits' = edits + 1
    /\ UNCHANGED <<env, direct, model, loader, intermediate_outputs,
                   chunk_objs, all_outputs, worker, after_queue, ui,
                   snapshot, calls, units, delivered, all_outputs_of, outcome>>

\* A change made in the settings window.  The window (open_settings,
\* on_closing) is modal and changes nothing but which widgets take input;
\* it can be opened and closed at any time, so it is not a variable here.
EditSettings(new) ==
    /\ edits < MaxEdits
    /\ settings' = new
    /\ edits' = IF new = settings THEN edits ELSE edits + 1
    /\ UNCHANGED <<env, direct, model, loader, intermediate_outputs,
                   chunk_objs, all_outputs, worker, after_queue, ui,
                   snapshot, calls, units, delivered, all_outputs_of, outcome>>

\* Override switch -> toggle_command -> toggle_custom_passes.
toggle_custom_passes ==
    EditSettings([settings EXCEPT !.use_custom_passes = ~@])

\* str.isdigit() and int() on the entry text.
IsDigits(entry) ==
    Len(entry) > 0 /\ \A i \in 1..Len(entry) : entry[i] \in {"0", "1", "2", "3"}

DigitValue(d) == CASE d = "0" -> 0 [] d = "1" -> 1 [] d = "2" -> 2 [] d = "3" -> 3

RECURSIVE IntOf(_, _)
IntOf(entry, n) ==
    IF n = 0 THEN 0 ELSE 10 * IntOf(entry, n - 1) + DigitValue(entry[n])

\* Fault: any number typed is stored, zero included (C24 must reject it).
PassesAfterEntryAnyNumber(entry, kept) ==
    IF IsDigits(entry) THEN IntOf(entry, Len(entry)) ELSE kept

\* The value update_passes stores for an entry text: the number typed when
\* it is all digits and positive, else the value kept.
PassesAfterEntry(entry, kept) ==
    IF IsDigits(entry) /\ IntOf(entry, Len(entry)) > 0
    THEN IntOf(entry, Len(entry))
    ELSE kept

\* Key released in the custom-passes entry -> update_passes.  The entry
\* takes keys only while the override switch is on (its state is "normal").
update_passes(entry) ==
    /\ settings.use_custom_passes
    /\ EditSettings([settings EXCEPT
                        !.custom_passes = PassesAfterEntry(entry, @)])

\* Dash switch -> update_dash.
update_dash == EditSettings([settings EXCEPT !.remove_dashes = ~@])

\* Intermediate switch -> update_intermediate.
update_intermediate == EditSettings([settings EXCEPT !.save_intermediate = ~@])

\* ------------------------------------------------------ the main window

\* Fault: humanize_text leaves the button enabled (C1 must reject it).
ProcessingStateEnabled == "normal"

\* The button state humanize_text sets while a run is processed.
ProcessingState == "disabled"

\* Fault: a refused request clears the output box as an accepted one does
\* (C13 must reject it).
RejectRequestClearing(title) ==
    /\ input_warning' = title
    /\ output_text' = <<>>
    /\ UNCHANGED <<model, loader, settings, intermediate_outputs, chunk_objs,
                   all_outputs, worker, after_queue, load_model_btn,
                   humanize_btn, intermediate_btn, progress_bar,
                   progress_label, hist, saved_file, last_read, direct>>

\* messagebox.showwarning(title, ...); return: the request is refused.
RejectRequest(title) ==
    /\ input_warning' = title
    /\ UNCHANGED <<model, loader, settings, intermediate_outputs, chunk_objs,
                   all_outputs, worker, after_queue, ui, hist, saved_file,
                   last_read, direct>>

\* Humanize button -> humanize_text, with `text` in the input box.  A blank
\* input or a missing model is answered with a warning box and nothing else;
\* otherwise the run is set up and its _process_text thread started.
humanize_text(text) ==
    /\ humanize_btn = "normal"
    /\ LET input_content == Strip(text)
       IN  IF input_content = <<>>
           THEN RejectRequest("No Input")
           ELSE IF model = "None"
           THEN RejectRequest("Model Not Loaded")
           ELSE /\ humanize_btn' = ProcessingState
                /\ input_warning' = "none"
                /\ output_text' = <<>>
                /\ progress_bar' = <<0, 1>>
                /\ intermediate_outputs' = <<>>
                /\ chunk_objs' = <<>>   \* the old run's dicts are garbage
                /\ worker' = [IdleWorker EXCEPT !.pc = "read_strength",
                                                !.input_content = input_content]
                /\ outcome' = "running"
                /\ snapshot' = settings
                /\ calls' = <<>>
                /\ units' = <<>>
                /\ delivered' = <<>>
                /\ all_outputs_of' = Aged(all_outputs_of)
                /\ after_queue' = [i \in 1..Len(after_queue) |->
                      [after_queue[i] EXCEPT !.of = Aged(@)]]
                /\ UNCHANGED <<saved_file, last_read, direct, model, loader, settings, all_outputs, load_model_btn,
                               intermediate_btn, progress_label, edits>>

\* Clear All button -> clear_all.
clear_all ==
    /\ output_text' = <<>>
    /\ all_outputs' = <<>>
    /\ intermediate_outputs' = <<>>
    /\ progress_bar' = <<0, 1>>
    /\ progress_label' = <<"Waiting...">>
    /\ intermediate_btn' = IF model = "None" THEN "disabled" ELSE "normal"
    /\ all_outputs_of' = "none"
    /\ UNCHANGED <<env, direct, model, loader, settings, chunk_objs,
                   worker, after_queue, load_model_btn, humanize_btn,
                   edits, snapshot, calls, units, delivered, outcome>>

\* The fraction _update_progress computes: current / total, 0 when total is 0.
Fraction(current, total) == IF total > 0 THEN <<current, total>> ELSE <<0, 1>>

\* Queued by the worker: _update_progress(current, total, message).
_update_progress ==
    /\ Due("_update_progress")
    /\ LET cb == Head(after_queue)
       IN  /\ progress_bar' = Fraction(cb.args[1], cb.args[2])
           /\ progress_label' = cb.args[3]
           /\ delivered' = Append(delivered, <<cb.of>> \o cb.args)
    /\ after_queue' = Tail(after_queue)
    /\ UNCHANGED <<env, direct, model, loader, settings, intermediate_outputs, chunk_objs, all_outputs, worker,
                   load_model_btn, humanize_btn, intermediate_btn, output_text,
                   edits, snapshot, calls, units, all_outputs_of, outcome>>

\* Queued by the worker: _update_output(text, success).
_update_output ==
    /\ Due("_update_output")
    /\ LET cb == Head(after_queue)
           text == cb.args[1]
           success == cb.args[2]
       IN  /\ output_text' = text
           /\ humanize_btn' = "normal"
           /\ IF success
              THEN /\ progress_label' = <<"Done!">>
                   /\ intermediate_btn' =
                        IF settings.save_intermediate /\ intermediate_outputs # <<>>
                        THEN "normal" ELSE intermediate_btn
                   /\ UNCHANGED progress_bar
              ELSE /\ progress_bar' = <<0, 1>>
                   /\ progress_label' = <<"Failed">>
                   /\ UNCHANGED intermediate_btn
    /\ after_queue' = Tail(after_queue)
    /\ UNCHANGED <<env, direct, model, loader, settings, intermediate_outputs, chunk_objs, all_outputs, worker,
                   load_model_btn, hist>>

\* The chunk_data dicts that self.intermediate_outputs refers to.
StoredChunks == [i \in 1..Len(intermediate_outputs) |->
                    chunk_objs[intermediate_outputs[i]]]

\* Version selector -> change_output("Version <version>"): nothing is shown
\* while self.all_outputs is empty, else the selected version.
change_output(version) ==
    /\ last_read' = [op |-> "change_output", worker_active |-> worker.pc # "idle"]
    /\ output_text' = IF all_outputs = <<>> THEN output_text
                      ELSE all_outputs[version]
    /\ UNCHANGED <<model, loader, settings, intermediate_outputs, chunk_objs,
                   all_outputs, worker, after_queue, load_model_btn,
                   humanize_btn, intermediate_btn, progress_bar,
                   progress_label, hist, input_warning, saved_file, direct>>

\* Save Intermediate button -> save_intermediate_outputs: an info box when
\* the store is empty; else the user names a file or cancels the dialog,
\* and the file gets the settings, the store and self.all_outputs.
save_intermediate_outputs ==
    /\ intermediate_btn = "normal"
    /\ last_read' = [op |-> "save_intermediate_outputs",
                     worker_active |-> worker.pc # "idle"]
    /\ \/ /\ intermediate_outputs # <<>>
          /\ saved_file' = [settings |-> settings,
                            intermediate_outputs |-> StoredChunks,
                            final_outputs |-> all_outputs]
       \/ UNCHANGED saved_file
    /\ UNCHANGED <<model, loader, settings, intermediate_outputs, chunk_objs,
                   all_outputs, worker, after_queue, ui, hist, input_warning,
                   direct>>

\* ------------------------------------------------- the _process_text thread

\* {"Standard": 1, "High": 1, "Maximum": 2}[strength]
StrengthPasses(strength) ==
    CASE strength = "Standard" -> 1
      [] strength = "High" -> 1
      [] strength = "Maximum" -> 2

\* Fault: every strength searches with 8 beams (C19 must reject it).
NumBeamsFlat(strength) == 8

NumBeams(strength) ==
    IF strength = "Standard" THEN 4 ELSE IF strength = "High" THEN 8 ELSE 10

\* 10.0, 12.0 and 15.0
RepetitionPenalty(strength) ==
    IF strength = "Standard" THEN 10 ELSE IF strength = "High" THEN 12 ELSE 15

\* model.generate(..., num_return_sequences=4, do_sample=False) with
\* batch_decode: decoding is deterministic, so the 4 candidates are a function
\* of the prefixed text and the beam parameters.  The rewriting model is
\* opaque; this one builds its candidates from the first and last symbol of
\* the text after the prefix.
generate(prefixed_text, num_beams, repetition_penalty) ==
    LET body == SubSeq(prefixed_text, Len(Prefix) + 1, Len(prefixed_text))
        first == body[1]
        last == body[Len(body)]
    IN  << <<last, EmDash, first>>,
           <<first, " ", EnDash, " ", "b">>,
           <<first, "x">>,
           <<"y", last>> >>

\* The symbols of the texts that a run started from the main window handles.
RunSymbols ==
    UNION { { t[i] : i \in 1..Len(t) } : t \in InputTexts }
        \cup {EmDash, EnDash, " ", ",", "b", "x", "y"}

\* The candidates the model returns for such texts.
RunParaphrases ==
    UNION { { generate(Prefixed(<<first, last>>), 0, 0)[v] : v \in 1..4 } :
            first \in RunSymbols, last \in RunSymbols }

\* self.split_into_chunks(text) for the texts the main window passes on,
\* evaluated once.
SplitInput ==
    [text \in { Strip(t) : t \in InputTexts } |-> split_into_chunks(text)]

\* self.humanize_output(p) for the candidates of a run, evaluated once.
HumanizeParaphrase ==
    [p \in RunParaphrases |->
        [remove_dashes \in BOOLEAN |-> humanize_output(p, remove_dashes)]]

\* f"Error during processing:\n{str(e)}"
ErrorText(e) == <<"Error during processing:", e>>

\* What the thread's steps leave alone.
WorkerFrame ==
    UNCHANGED <<env, direct, model, loader, settings, ui, edits,
                snapshot, delivered>>

\* Fault: the exception is swallowed, nothing is queued (C22 must reject
\* it).
RaiseSilent(e, queue) ==
    /\ after_queue' = queue
    /\ worker' = IdleWorker
    /\ outcome' = e

\* except Exception as e: _update_output(error_msg, False) is queued and the
\* thread ends.  `queue` holds what the try block had queued before.
Raise(e, queue) ==
    /\ after_queue' = Post(queue, Callback("_update_output",
                                           <<ErrorText(e), FALSE>>, "current"))
    /\ worker' = IdleWorker
    /\ outcome' = e

\* Fault: the callback counts the units left (C9 must reject it).
ChunkProgressRemaining(chunk_counter, total_chunks) ==
    <<total_chunks - chunk_counter, total_chunks,
      <<"Processing chunk", chunk_counter + 1, total_chunks>>>>

\* The arguments of the progress callback queued before each pass.
ChunkProgress(chunk_counter, total_chunks) ==
    <<chunk_counter, total_chunks,
      <<"Processing chunk", chunk_counter + 1, total_chunks>>>>

\* Fault: the final callback is one unit short (C10 must reject it).
FinalProgressShort(total_chunks) ==
    <<total_chunks - 1, total_chunks, <<"Complete!">>>>

\* The arguments of the progress callback queued after the last chunk.
FinalProgress(total_chunks) == <<total_chunks, total_chunks, <<"Complete!">>>>

\* Fault: the second paraphrase feeds the next pass (C7 must reject it).
NextPassInputSecond(paraphrases) == paraphrases[2]

\* processed_chunk = paraphrases[0]: what feeds the next pass.
NextPassInput(paraphrases) == paraphrases[1]

\* Fault: a chunk's paraphrases go in front of the versions (C8 must
\* reject it).
VersionsAfterChunkFront(all_versions, paraphrases) ==
    [i \in 1..4 |-> <<paraphrases[i]>> \o all_versions[i]]

\* for i, paraphrase in enumerate(paraphrases): all_versions[i].append(paraphrase)
VersionsAfterChunk(all_versions, paraphrases) ==
    [i \in 1..4 |-> Append(all_versions[i], paraphrases[i])]

\* strength = self.settings["strength"]
ReadStrength ==
    /\ worker.pc = "read_strength"
    /\ worker' = [worker EXCEPT !.strength = settings.strength,
                                !.pc = "read_use_custom"]
    /\ UNCHANGED <<intermediate_outputs, chunk_objs, all_outputs, after_queue,
                   calls, units, all_outputs_of, outcome>>
    /\ WorkerFrame

\* if self.settings["use_custom_passes"]: ... else: passes from the table;
\* then the beam parameters of the strength read before.
ReadUseCustom ==
    /\ worker.pc = "read_use_custom"
    /\ worker' = IF settings.use_custom_passes
                 THEN [worker EXCEPT !.pc = "read_custom_passes"]
                 ELSE [worker EXCEPT
                          !.passes = StrengthPasses(worker.strength),
                          !.num_beams = NumBeams(worker.strength),
                          !.repetition_penalty = RepetitionPenalty(worker.strength),
                          !.pc = "split"]
    /\ UNCHANGED <<intermediate_outputs, chunk_objs, all_outputs, after_queue,
                   calls, units, all_outputs_of, outcome>>
    /\ WorkerFrame

\* passes = self.settings["custom_passes"], then the beam parameters.
ReadCustomPasses ==
    /\ worker.pc = "read_custom_passes"
    /\ worker' = [worker EXCEPT
                    !.passes = settings.custom_passes,
                    !.num_beams = NumBeams(worker.strength),
                    !.repetition_penalty = RepetitionPenalty(worker.strength),
                    !.pc = "split"]
    /\ UNCHANGED <<intermediate_outputs, chunk_objs, all_outputs, after_queue,
                   calls, units, all_outputs_of, outcome>>
    /\ WorkerFrame

\* chunks, total_chunks, the first progress callback, all_versions and
\* chunk_counter.
SplitText ==
    /\ worker.pc = "split"
    /\ LET chunks == IF worker.input_content \in DOMAIN SplitInput
                     THEN SplitInput[worker.input_content]
                     ELSE split_into_chunks(worker.input_content)
           total_chunks == Len(chunks) * worker.passes
       IN  /\ worker' = [worker EXCEPT
                            !.chunks = chunks,
                            !.total_chunks = total_chunks,
                            !.all_versions = <<<<>>, <<>>, <<>>, <<>>>>,
                            !.chunk_counter = 0,
                            !.chunk_index = 0,
                            !.pc = "chunk_start"]
           /\ after_queue' = Post(after_queue,
                 Callback("_update_progress",
                          <<0, total_chunks, <<"Processing with", worker.passes>>>>,
                          "current"))
    /\ UNCHANGED <<intermediate_outputs, chunk_objs, all_outputs, calls, units,
                   all_outputs_of, outcome>>
    /\ WorkerFrame

\* for chunk_index, chunk in enumerate(chunks): chunk_data is made when
\* settings["save_intermediate"] is set now; processed_chunk = chunk.
ChunkStart ==
    /\ worker.pc = "chunk_start"
    /\ IF worker.chunk_index >= Len(worker.chunks)
       THEN /\ worker' = [worker EXCEPT !.pc = "join"]
            /\ UNCHANGED chunk_objs
       ELSE LET chunk == worker.chunks[worker.chunk_index + 1]
            IN  /\ chunk_objs' =
                     IF settings.save_intermediate
                     THEN Append(chunk_objs, [original |-> chunk, outputs |-> <<>>])
                     ELSE chunk_objs
                /\ worker' = [worker EXCEPT
                     !.chunk_data = IF settings.save_intermediate
                                    THEN Len(chunk_objs) + 1 ELSE @,
                     !.processed_chunk = chunk,
                     !.pass_num = 0,
                     !.pc = IF worker.passes > 0 THEN "generate" ELSE "chunk_end"]
    /\ UNCHANGED <<intermediate_outputs, all_outputs, after_queue, calls, units,
                   all_outputs_of, outcome>>
    /\ WorkerFrame

\* One pass, up to batch_decode: the progress callback is queued, then the
\* model is called with the prefixed text and returns 4 candidates, or raises.
Generate ==
    /\ worker.pc = "generate"
    /\ LET prefixed_text == Prefixed(worker.processed_chunk)
           queued == Post(after_queue,
                 Callback("_update_progress",
                          ChunkProgress(worker.chunk_counter, worker.total_chunks),
                          "current"))
       IN  /\ calls' = Append(calls, [chunk_index |-> worker.chunk_index,
                                      pass_num |-> worker.pass_num,
                                      chunk |-> worker.chunks[worker.chunk_index + 1],
                                      passes |-> worker.passes,
                                      text |-> prefixed_text,
                                      num_beams |-> worker.num_beams,
                                      repetition_penalty |-> worker.repetition_penalty])
           /\ \/ /\ worker' = [worker EXCEPT
                            !.outputs = generate(prefixed_text, worker.num_beams,
                                                 worker.repetition_penalty),
                            !.humanized = <<>>,
                            !.pc = "humanize"]
                 /\ after_queue' = queued
                 /\ UNCHANGED outcome
              \/ Raise("GenerationError", queued)
    /\ UNCHANGED <<intermediate_outputs, chunk_objs, all_outputs, units,
                   all_outputs_of>>
    /\ WorkerFrame

\* paraphrases = [self.humanize_output(p) for p in paraphrases]: one call
\* per step, each reading settings["remove_dashes"].
Humanize ==
    /\ worker.pc = "humanize"
    /\ LET p == worker.outputs[Len(worker.humanized) + 1]
           done == Append(worker.humanized,
                          IF p \in DOMAIN HumanizeParaphrase
                          THEN HumanizeParaphrase[p][settings.remove_dashes]
                          ELSE humanize_output(p, settings.remove_dashes))
       IN  worker' = IF Len(done) < Len(worker.outputs)
                     THEN [worker EXCEPT !.humanized = done]
                     ELSE [worker EXCEPT !.humanized = <<>>,
                                         !.paraphrases = done,
                                         !.pc = "save_pass"]
    /\ UNCHANGED <<intermediate_outputs, chunk_objs, all_outputs, after_queue,
                   calls, units, all_outputs_of, outcome>>
    /\ WorkerFrame

\* The end of a pass: the paraphrases are recorded in chunk_data when
\* settings["save_intermediate"] is set now (chunk_data may be unbound),
\* the first one feeds the next pass, and chunk_counter goes up.
SavePass ==
    /\ worker.pc = "save_pass"
    /\ IF settings.save_intermediate /\ worker.chunk_data = 0
       THEN /\ Raise("UnboundLocalError", after_queue)
            /\ UNCHANGED <<chunk_objs, units>>
       ELSE /\ chunk_objs' =
                 IF settings.save_intermediate
                 THEN [chunk_objs EXCEPT ![worker.chunk_data].outputs =
                                             Append(@, worker.paraphrases)]
                 ELSE chunk_objs
            /\ worker' = [worker EXCEPT
                 !.processed_chunk = IF worker.pass_num < worker.passes - 1
                                     THEN NextPassInput(worker.paraphrases) ELSE @,
                 !.chunk_counter = @ + 1,
                 !.pass_num = @ + 1,
                 !.pc = IF worker.pass_num + 1 < worker.passes
                        THEN "generate" ELSE "chunk_end"]
            /\ units' = Append(units, [chunk_index |-> worker.chunk_index,
                                       pass_num |-> worker.pass_num,
                                       outputs |-> worker.outputs,
                                       paraphrases |-> worker.paraphrases])
            /\ UNCHANGED <<after_queue, outcome>>
    /\ UNCHANGED <<intermediate_outputs, all_outputs, calls, all_outputs_of>>
    /\ WorkerFrame

\* The end of a chunk: chunk_data is appended to self.intermediate_outputs
\* when settings["save_intermediate"] is set now, and the chunk's 4
\* paraphrases are appended to the 4 versions.
ChunkEnd ==
    /\ worker.pc = "chunk_end"
    /\ IF \/ settings.save_intermediate /\ worker.chunk_data = 0
          \/ worker.paraphrases = <<>>
       THEN /\ Raise("UnboundLocalError", after_queue)
            /\ UNCHANGED intermediate_outputs
       ELSE /\ intermediate_outputs' =
                 IF settings.save_intermediate
                 THEN Append(intermediate_outputs, worker.chunk_data)
                 ELSE intermediate_outputs
            /\ worker' = [worker EXCEPT
                 !.all_versions = VersionsAfterChunk(@, worker.paraphrases),
                 !.chunk_index = @ + 1,
                 !.pc = "chunk_start"]
            /\ UNCHANGED <<after_queue, outcome>>
    /\ UNCHANGED <<chunk_objs, all_outputs, calls, units, all_outputs_of>>
    /\ WorkerFrame

\* self.all_outputs = [' '.join(version) for version in all_versions], then
\* the final progress callback.
JoinVersions ==
    /\ worker.pc = "join"
    /\ all_outputs' = [i \in 1..4 |-> Join(worker.all_versions[i], <<" ">>)]
    /\ all_outputs_of' = "current"
    /\ after_queue' = Post(after_queue,
          Callback("_update_progress", FinalProgress(worker.total_chunks),
                   "current"))
    /\ worker' = [worker EXCEPT !.pc = "deliver"]
    /\ UNCHANGED <<intermediate_outputs, chunk_objs, calls, units, outcome>>
    /\ WorkerFrame

\* root.after(0, self._update_output, self.all_outputs[0], True): the list
\* is read again, and is empty after a clear_all.
Deliver ==
    /\ worker.pc = "deliver"
    /\ IF all_outputs = <<>>
       THEN Raise("IndexError", after_queue)
       ELSE /\ after_queue' = Post(after_queue,
                  Callback("_update_output", <<all_outputs[1], TRUE>>, "current"))
            /\ worker' = IdleWorker
            /\ outcome' = "success"
    /\ UNCHANGED <<intermediate_outputs, chunk_objs, all_outputs, calls, units,
                   all_outputs_of>>
    /\ WorkerFrame

\* --------------------------------------------------------- specification

Next ==
    \/ load_model_thread
    \/ LoadPretrained
    \/ LoadPlace
    \/ _model_loaded_success
    \/ _model_loaded_error
    \/ \E value \in Strengths : update_strength(value)
    \/ toggle_custom_passes
    \/ \E entry \in PassesEntries : update_passes(entry)
    \/ update_dash
    \/ update_intermediate
    \/ \E text \in InputTexts : humanize_text(text)
    \/ clear_all
    \/ _update_progress
    \/ _update_output
    \/ ReadStrength
    \/ ReadUseCustom
    \/ ReadCustomPasses
    \/ SplitText
    \/ ChunkStart
    \/ Generate
    \/ Humanize
    \/ SavePass
    \/ ChunkEnd
    \/ JoinVersions
    \/ Deliver

Spec == Init /\ [][Next]_vars

\* A step of the _process_text thread.
WorkerStep ==
    \/ ReadStrength
    \/ ReadUseCustom
    \/ ReadCustomPasses
    \/ SplitText
    \/ ChunkStart
    \/ Generate
    \/ Humanize
    \/ SavePass
    \/ ChunkEnd
    \/ JoinVersions
    \/ Deliver

\* The main loop runs a queued callback.
MainLoopStep ==
    \/ _model_loaded_success
    \/ _model_loaded_error
    \/ _update_progress
    \/ _update_output

\* The thread keeps running (a model call returns or raises) and the main
\* loop keeps running the callbacks queued with root.after.
SpecFair ==
    /\ Init
    /\ [][Next]_vars
    /\ WF_vars(WorkerStep)
    /\ WF_vars(MainLoopStep)

\* The behaviours in which the user leaves the application alone while a
\* run is processed: no clear_all, and settings change only between runs.
\* Every behaviour of SpecQuiet is a behaviour of Spec.
Quiet == worker.pc = "idle"

NextQuiet ==
    \/ load_model_thread
    \/ LoadPretrained
    \/ LoadPlace
    \/ _model_loaded_success
    \/ _model_loaded_error
    \/ Quiet /\ \E value \in Strengths : update_strength(value)
    \/ Quiet /\ toggle_custom_passes
    \/ Quiet /\ \E entry \in PassesEntries : update_passes(entry)
    \/ Quiet /\ update_dash
    \/ Quiet /\ update_intermediate
    \/ \E text \in InputTexts : humanize_text(text)
    \/ _update_progress
    \/ _update_output
    \/ ReadStrength
    \/ ReadUseCustom
    \/ ReadCustomPasses
    \/ SplitText
    \/ ChunkStart
    \/ Generate
    \/ Humanize
    \/ SavePass
    \/ ChunkEnd
    \/ JoinVersions
    \/ Deliver

SpecQuiet == Init /\ [][NextQuiet]_vars

\* The behaviours of a user who leaves the settings alone, and exports
\* and selects versions at any time.
NextUI ==
    \/ load_model_thread
    \/ LoadPretrained
    \/ LoadPlace
    \/ _model_loaded_success
    \/ _model_loaded_error
    \/ \E text \in InputTexts : humanize_text(text)
    \/ \E version \in 1..4 : change_output(version)
    \/ save_intermediate_outputs
    \/ _update_progress
    \/ _update_output
    \/ ReadStrength
    \/ ReadUseCustom
    \/ SplitText
    \/ ChunkStart
    \/ Generate
    \/ Humanize
    \/ SavePass
    \/ ChunkEnd
    \/ JoinVersions
    \/ Deliver

SpecUI == Init /\ [][NextUI]_vars

\* ------------------------------------------- the text functions alone

\* The words of the texts given to split_into_chunks: the empty word (it
\* makes a leading space or a double space), words within and over the
\* budget, with and without sentence end or delimiter, a bare comma.
ChunkerWords ==
    { <<>>, <<"M">>, <<"M", ".">>, <<"L", ".">>, <<"W">>, <<"W", ",">>,
      <<",">>, <<"M", ";">> }

\* Words in a text given to split_into_chunks.
MaxWords == 4

WordSeqs(n) == UNION { [1..k -> ChunkerWords] : k \in 0..n }

\* The texts: up to MaxWords words, a space between two.
ChunkerTexts == { Join(words, <<" ">>) : words \in WordSeqs(MaxWords) }

\* What a direct call leaves alone.
DirectFrame ==
    UNCHANGED <<model, loader, settings, intermediate_outputs, chunk_objs,
                all_outputs, worker, after_queue, ui, hist, env>>

InitChunker ==
    /\ InitProgram
    /\ fn_pc = "call"
    /\ fn_arg \in ChunkerTexts
    /\ fn_result = <<>>

\* chunks = self.split_into_chunks(text)
CallSplitIntoChunks ==
    /\ fn_pc = "call"
    /\ fn_result' = split_into_chunks(fn_arg)
    /\ fn_pc' = "returned"
    /\ UNCHANGED fn_arg
    /\ DirectFrame

NextChunker == CallSplitIntoChunks

SpecChunker == InitChunker /\ [][NextChunker]_vars

\* The symbols of the candidates given to humanize_output.
PostSymbols == {"a", ",", ".", " ", EmDash, EnDash}

\* Symbols in a candidate given to humanize_output.
MaxCandidateLen == 4

Candidates == UNION { [1..k -> PostSymbols] : k \in 0..MaxCandidateLen }

InitPost ==
    /\ InitProgram
    /\ fn_pc = "call"
    /\ fn_arg \in [text : Candidates, remove_dashes : BOOLEAN]
    /\ fn_result = <<>>

\* result = self.humanize_output(text), with settings["remove_dashes"] as
\* given.
CallHumanizeOutput ==
    /\ fn_pc = "call"
    /\ fn_result' = humanize_output(fn_arg.text, fn_arg.remove_dashes)
    /\ fn_pc' = "returned"
    /\ UNCHANGED fn_arg
    /\ DirectFrame

\* self.humanize_output(result): the function applied to its own output.
CallHumanizeOutputAgain ==
    /\ fn_pc = "returned"
    /\ fn_arg' = [fn_arg EXCEPT !.text = fn_result]
    /\ fn_result' = humanize_output(fn_result, fn_arg.remove_dashes)
    /\ fn_pc' = "returned_again"
    /\ DirectFrame

NextPost == CallHumanizeOutput \/ CallHumanizeOutputAgain

SpecPost == InitPost /\ [][NextPost]_vars

\* ------------------------------------------------------------ properties

\* The completion or failure callback of a run is queued and not yet handled.
OutputPending ==
    \E i \in 1..Len(after_queue) : after_queue[i].fn = "_update_output"

\* A run's thread has started and its _update_output has not been handled.
RunPending == worker.pc # "idle" \/ OutputPending

\* A run has ended and its _update_output has been handled.
RunReported == outcome \notin {"none", "running"} /\ ~OutputPending

\* C1: at most one humanization worker at a time: whenever a run's thread
\* has started and its completion or failure callback has not been handled,
\* the Humanize button is disabled, so humanize_text cannot start a second
\* thread.
C1_TriggerDisabledWhileRunPending ==
    RunPending => humanize_btn = "disabled"

\* A second run is in its model call while the callbacks of its first pass
\* wait in the queue.
C1_Witness ==
    /\ worker.pc = "humanize"
    /\ all_outputs_of = "earlier"
    /\ after_queue # <<>>
    /\ humanize_btn = "disabled"

\* C3: the run state is reset when a run is accepted: after a request has
\* been accepted, the exportable data (intermediate_outputs with
\* all_outputs) holds only data of the current run, never final versions of
\* an earlier run.
C3_OnlyCurrentRunData ==
    outcome # "none" => all_outputs_of # "earlier"

\* C4: when the model call raises in a run, no version stream is left in
\* the run state after the failure, whatever runs came before.
C4_NoVersionsAfterGenerationFailure ==
    outcome = "GenerationError" => all_outputs = <<>>

\* C2: a run follows the settings in force when it was accepted: its pass
\* count and beam parameters are those of that snapshot, every recorded
\* unit was post-processed with the snapshot's remove_dashes, nothing is
\* stored when the snapshot's save_intermediate is off, and the run does not
\* end in an error that only a later settings change can cause.
EffectivePasses(s) ==
    IF s.use_custom_passes THEN s.custom_passes ELSE StrengthPasses(s.strength)

PostProcessedWith(unit, remove_dashes) ==
    unit.paraphrases =
        [v \in 1..4 |-> humanize_output(unit.outputs[v], remove_dashes)]

C2_RunFollowsSnapshot ==
    /\ \A i \in 1..Len(calls) :
          /\ calls[i].passes = EffectivePasses(snapshot)
          /\ calls[i].num_beams = NumBeams(snapshot.strength)
          /\ calls[i].repetition_penalty = RepetitionPenalty(snapshot.strength)
    /\ \A i \in 1..Len(units) :
          PostProcessedWith(units[i], snapshot.remove_dashes)
    /\ ~snapshot.save_intermediate => intermediate_outputs = <<>>
    /\ outcome # "UnboundLocalError"

\* The store holds the record of a unit: the dict of the unit's chunk is in
\* intermediate_outputs and its list of passes has the unit's paraphrases.
Recorded(unit) ==
    /\ Len(intermediate_outputs) > unit.chunk_index
    /\ LET chunk_data == chunk_objs[intermediate_outputs[unit.chunk_index + 1]]
       IN  /\ Len(chunk_data.outputs) > unit.pass_num
           /\ chunk_data.outputs[unit.pass_num + 1] = unit.paraphrases

\* C5: when save_intermediate is on and the model call raises on a unit,
\* the store after the failure holds the record of every unit completed
\* before it (checked for runs the user leaves alone: SpecQuiet).
C5_StoreKeepsCompletedUnits ==
    (outcome = "GenerationError" /\ snapshot.save_intermediate)
        => \A i \in 1..Len(units) : Recorded(units[i])

\* The progress callbacks of the current run in the order queued: those
\* handled, then those waiting.
RECURSIVE QueuedProgress(_)
QueuedProgress(queue) ==
    IF queue = <<>> THEN <<>>
    ELSE IF Head(queue).fn = "_update_progress" /\ Head(queue).of = "current"
         THEN <<Head(queue).args>> \o QueuedProgress(Tail(queue))
         ELSE QueuedProgress(Tail(queue))

RECURSIVE HandledProgress(_)
HandledProgress(seq) ==
    IF seq = <<>> THEN <<>>
    ELSE IF Head(seq)[1] = "current"
         THEN <<Tail(Head(seq))>> \o HandledProgress(Tail(seq))
         ELSE HandledProgress(Tail(seq))

IssuedProgress == HandledProgress(delivered) \o QueuedProgress(after_queue)

RunEnded == outcome \notin {"none", "running"}

InLoop == worker.pc \in {"chunk_start", "generate", "humanize", "save_pass",
                         "chunk_end", "join"}

\* C6: the total is chunks times passes, the counter of completed units
\* starts at 0 and goes up by one per completed unit, a progress callback
\* carrying the new count is queued after each unit, and a successful run
\* ends with the count at the total.
C6_UnitsCountedAndNotified ==
    /\ InLoop => /\ worker.total_chunks = Len(worker.chunks) * worker.passes
                 /\ worker.chunk_counter = Len(units)
    /\ RunEnded =>
          \A k \in 1..Len(units) :
             \E i \in 1..Len(IssuedProgress) : IssuedProgress[i][1] = k
    /\ outcome = "success" =>
          /\ IssuedProgress # <<>>
          /\ IssuedProgress[Len(IssuedProgress)][1] = Len(units)
          /\ IssuedProgress[Len(IssuedProgress)][2] = Len(units)

\* C7: pass 0 of a chunk is called with the prefix and the chunk, a later
\* pass with the prefix and the first post-processed paraphrase of the pass
\* before it of the same chunk, and the calls come in the order chunk 0
\* pass 0..passes-1, chunk 1 pass 0.., and so on.
ChainedInput(call) ==
    IF call.pass_num = 0
    THEN call.text = Prefix \o call.chunk
    ELSE \E i \in 1..Len(units) :
            /\ units[i].chunk_index = call.chunk_index
            /\ units[i].pass_num = call.pass_num - 1
            /\ call.text = Prefix \o units[i].paraphrases[1]

FollowsInOrder(call, next) ==
    IF call.pass_num + 1 < call.passes
    THEN next.chunk_index = call.chunk_index /\ next.pass_num = call.pass_num + 1
    ELSE next.chunk_index = call.chunk_index + 1 /\ next.pass_num = 0

C7_PassChaining ==
    /\ \A i \in 1..Len(calls) : ChainedInput(calls[i])
    /\ calls # <<>> => calls[1].chunk_index = 0 /\ calls[1].pass_num = 0
    /\ \A i \in 1..(Len(calls) - 1) : FollowsInOrder(calls[i], calls[i + 1])
    /\ InLoop => \A i \in 1..Len(calls) :
                    /\ calls[i].chunk = worker.chunks[calls[i].chunk_index + 1]
                    /\ calls[i].passes = worker.passes

\* Three calls of a run of two passes: both passes of chunk 0 and the first
\* of chunk 1.
C7_Witness ==
    /\ Len(calls) >= 3
    /\ calls[2].pass_num = 1
    /\ calls[3].chunk_index = 1
    /\ calls[2].text # calls[1].text

\* The unit of the last pass of a chunk.
FinalUnit(chunk_index) ==
    CHOOSE i \in 1..Len(units) :
        /\ units[i].chunk_index = chunk_index
        /\ \A j \in (i + 1)..Len(units) : units[j].chunk_index # chunk_index

ChunksDone == IF units = <<>> THEN 0 ELSE units[Len(units)].chunk_index + 1

ExpectedVersion(v) ==
    Join([c \in 1..ChunksDone |-> units[FinalUnit(c - 1)].paraphrases[v]],
         <<" ">>)

\* The versions of the current run are in all_outputs and the run succeeded
\* or is about to deliver them.
VersionsReady ==
    /\ all_outputs_of = "current"
    /\ outcome = "success" \/ worker.pc = "deliver"

\* C8: after a successful run there are exactly 4 versions, and version v
\* is the single-space join, in chunk order, of the v-th post-processed
\* paraphrase of the last pass of each chunk.
C8_VersionsJoinFinalPass ==
    VersionsReady =>
        /\ Len(all_outputs) = 4
        /\ \A v \in 1..4 : all_outputs[v] = ExpectedVersion(v)

\* A successful run of two passes over two chunks.
C8_Witness ==
    /\ outcome = "success"
    /\ all_outputs_of = "current"
    /\ Len(units) = 4
    /\ ChunksDone = 2
    /\ units[1].paraphrases # units[2].paraphrases

\* C9: within a run, the `current` values that _update_progress receives
\* never decrease, in the order the callbacks are handled.
C9_DeliveredProgressMonotone ==
    \A i, j \in 1..Len(delivered) :
        (i < j /\ delivered[i][1] = delivered[j][1])
            => delivered[i][2] <= delivered[j][2]

\* _update_progress has handled three callbacks of one run, the last with a
\* greater `current` than the first.
C9_Witness ==
    /\ Len(delivered) >= 3
    /\ delivered[1][1] = delivered[3][1]
    /\ delivered[1][2] < delivered[3][2]

\* C10: the last progress callback of a successful run carries
\* current = total and "Complete!", no progress callback of a run is queued
\* behind the run's _update_output, and none is left to handle once that
\* _update_output has been handled.
C10_ProgressEndsWithRun ==
    /\ \A i, j \in 1..Len(after_queue) :
          (/\ i < j
           /\ after_queue[i].fn = "_update_output"
           /\ after_queue[i].of = after_queue[j].of)
              => after_queue[j].fn # "_update_progress"
    /\ RunReported => QueuedProgress(after_queue) = <<>>
    /\ outcome = "success" =>
          /\ IssuedProgress # <<>>
          /\ LET last == IssuedProgress[Len(IssuedProgress)]
             IN  last[1] = last[2] /\ last[3] = <<"Complete!">>

\* A successful run of more than one unit has been reported.
C10_Witness ==
    /\ outcome = "success"
    /\ RunReported
    /\ Len(delivered) >= 3
    /\ progress_label = <<"Done!">>

\* C11: the main thread reads self.intermediate_outputs and
\* self.all_outputs only between runs: no handler (the export, the version
\* selector) reads them while a _process_text thread is running.
C11_ReadsOnlyBetweenRuns == ~last_read.worker_active

\* C12: while a _process_text thread is running it is the only writer of
\* self.intermediate_outputs and self.all_outputs: a step that is not the
\* thread's leaves both as they are.
C12_WorkerSoleWriter ==
    [][(worker.pc # "idle" /\ worker' = worker)
          => /\ intermediate_outputs' = intermediate_outputs
             /\ all_outputs' = all_outputs]_vars

\* C13: a Humanize request with blank input or without a model is answered
\* with a warning at once, starts no thread, and leaves the run state, the
\* progress display and the output box as they were.
C13_RefusedRequestChangesNothing ==
    [][(input_warning' # "none" /\ input_warning' # input_warning)
          => UNCHANGED <<intermediate_outputs, chunk_objs, all_outputs,
                         all_outputs_of, worker, after_queue, humanize_btn,
                         output_text, progress_bar, progress_label,
                         outcome>>]_vars

\* A blank request was refused after a run that succeeded: its versions
\* and its output are still there.
C13_Witness ==
    /\ input_warning = "No Input"
    /\ outcome = "success"
    /\ all_outputs # <<>>
    /\ output_text # <<>>
    /\ worker.pc = "idle"

\* split_into_chunks has returned the chunks of fn_arg.
Returned == fn_pc = "returned"

\* A sentence that is over the budget on its own.
OverBudget(sentence) == TokenCount(Prefixed(sentence)) > TokenLimit

\* C14: split_into_chunks never returns an empty chunk.
C14_NoEmptyChunk ==
    Returned => \A i \in 1..Len(fn_result) : fn_result[i] # <<>>

RECURSIVE SentencePieces(_, _)
\* The sentences from the i-th on, an over-budget one replaced by its parts.
SentencePieces(sentences, i) ==
    IF i > Len(sentences) THEN <<>>
    ELSE (IF OverBudget(sentences[i])
          THEN ReSplit("comma_semi", sentences[i])
          ELSE <<sentences[i]>>) \o SentencePieces(sentences, i + 1)

\* C15: the chunks in order hold every sentence of the text once and in
\* the order of the text (an over-budget sentence as its parts): joined
\* with single spaces, the chunks read as the sentences do.
C15_ChunksKeepSentences ==
    Returned =>
        Join(fn_result, <<" ">>)
            = Join(SentencePieces(Sentences(fn_arg), 1), <<" ">>)

\* A sentence within budget was pending when an over-budget one arrived.
C15_Witness ==
    /\ Returned
    /\ Len(Sentences(fn_arg)) = 2
    /\ ~OverBudget(Sentences(fn_arg)[1])
    /\ OverBudget(Sentences(fn_arg)[2])
    /\ fn_result[1] = Sentences(fn_arg)[1]

\* The parts of the over-budget sentences of a text.
OverBudgetParts(text) ==
    UNION { { ReSplit("comma_semi", Sentences(text)[i])[j] :
                j \in 1..Len(ReSplit("comma_semi", Sentences(text)[i])) } :
            i \in { k \in 1..Len(Sentences(text)) :
                      OverBudget(Sentences(text)[k]) } }

\* C16: a chunk that is not a part of an over-budget sentence has at most
\* TokenLimit tokens, counted on the prefix followed by the chunk.
C16_ChunksWithinBudget ==
    Returned =>
        \A i \in 1..Len(fn_result) :
            \/ TokenCount(Prefixed(fn_result[i])) <= TokenLimit
            \/ fn_result[i] \in OverBudgetParts(fn_arg)

\* A chunk of two sentences, and a third sentence that did not fit.
C16_Witness ==
    /\ Returned
    /\ Len(Sentences(fn_arg)) = 3
    /\ Len(fn_result) = 2
    /\ Len(Sentences(fn_result[1])) = 2
    /\ \A i \in 1..3 : ~OverBudget(Sentences(fn_arg)[i])

RECURSIVE JoinedPacking(_, _, _, _)
\* Packing by the token count of the joined text: a sentence within budget
\* joins the current chunk when the prefix followed by the chunk's
\* sentences joined with it has at most TokenLimit tokens.
JoinedPacking(sentences, i, chunks, current_chunk) ==
    IF i > Len(sentences)
    THEN FlushPending(chunks, current_chunk)
    ELSE LET sentence == sentences[i]
             joined == Join(Append(current_chunk, sentence), <<" ">>)
         IN  IF OverBudget(sentence)
             THEN JoinedPacking(sentences, i + 1,
                      FlushPending(chunks, current_chunk)
                          \o ReSplit("comma_semi", sentence), <<>>)
             ELSE IF TokenCount(Prefixed(joined)) <= TokenLimit
                  THEN JoinedPacking(sentences, i + 1, chunks,
                                     Append(current_chunk, sentence))
                  ELSE JoinedPacking(sentences, i + 1,
                                     FlushPending(chunks, current_chunk),
                                     <<sentence>>)

\* C17: packing is greedy on the joined text: the chunks are those of
\* JoinedPacking.
C17_GreedyOnJoinedText ==
    Returned => fn_result = JoinedPacking(Sentences(fn_arg), 1, <<>>, <<>>)

\* The chunks of the sentences lo..hi of a text, taken on their own.
ChunksOf(sentences, lo, hi) ==
    ChunkLoop(SubSeq(sentences, lo, hi), 1, <<>>, <<>>, 0)

\* A text holds a comma or semicolon followed by whitespace.
HasDelimiter(text) ==
    \E i \in 1..Len(text) : MatchEnd("comma_semi", text, i) > 0

\* C18: an over-budget sentence is split at every comma or semicolon
\* followed by whitespace and each part is a chunk of its own, in order,
\* whatever its size: the chunks are those of the sentences before it, then
\* its parts, then those of the sentences after it.
C18_LongSentenceParts ==
    Returned =>
        LET sentences == Sentences(fn_arg)
        IN  \A i \in 1..Len(sentences) :
               OverBudget(sentences[i]) =>
                  LET before == ChunksOf(sentences, 1, i - 1)
                      parts == ReSplit("comma_semi", sentences[i])
                      after == ChunksOf(sentences, i + 1, Len(sentences))
                  IN  /\ fn_result = before \o parts \o after
                      /\ \A j \in 1..Len(parts) : ~HasDelimiter(parts[j])

\* An over-budget sentence of two parts, the second within budget, and a
\* sentence after it that would fit with that part.
C18_Witness ==
    /\ Returned
    /\ Len(Sentences(fn_arg)) = 2
    /\ OverBudget(Sentences(fn_arg)[1])
    /\ Len(fn_result) = 3
    /\ ~OverBudget(Join(<<fn_result[2], fn_result[3]>>, <<" ">>))
    /\ fn_result[2] # <<>>

\* The table of the strengths as stated: beams, repetition penalty, passes.
StatedBeams(strength) ==
    CASE strength = "Standard" -> 4
      [] strength = "High" -> 8
      [] strength = "Maximum" -> 10

StatedPenalty(strength) ==
    CASE strength = "Standard" -> 10
      [] strength = "High" -> 12
      [] strength = "Maximum" -> 15

StatedPasses(strength) ==
    CASE strength = "Standard" -> 1
      [] strength = "High" -> 1
      [] strength = "Maximum" -> 2

C20_HumanizeOutputIdempotent ==
    fn_pc = "returned_again" => fn_result = fn_arg.text

\* What a text is made of: its pieces between runs of whitespace.
WordsOf(text) == SelectSeq(ReSplit("ws", text), LAMBDA w : w # <<>>)

HasDash(text) == \E i \in 1..Len(text) : IsDash(text[i])

\* Two commas with nothing or only whitespace between them.
HasDoubledComma(text) ==
    \E i \in 1..Len(text) : MatchEnd("comma_comma", text, i) > 0

\* A comma immediately before a period.
HasCommaBeforePeriod(text) ==
    \E i \in 1..(Len(text) - 1) : text[i] = "," /\ text[i + 1] = "."

\* C21: with remove_dashes on, the output of humanize_output holds no
\* em-dash or en-dash, no doubled comma and no comma immediately before a
\* period; with remove_dashes off it is the text with its runs of
\* whitespace collapsed and its ends trimmed, dashes and commas as they
\* were.
C21_HumanizeOutputResult ==
    fn_pc = "returned" =>
        IF fn_arg.remove_dashes
        THEN /\ ~HasDash(fn_result)
             /\ ~HasDoubledComma(fn_result)
             /\ ~HasCommaBeforePeriod(fn_result)
        ELSE fn_result = Join(WordsOf(fn_arg.text), <<" ">>)

\* The parts of C21 on their own.
C21_NoDash == (fn_pc = "returned" /\ fn_arg.remove_dashes) => ~HasDash(fn_result)

C21_NoCommaBeforePeriod ==
    (fn_pc = "returned" /\ fn_arg.remove_dashes)
        => ~HasCommaBeforePeriod(fn_result)

C21_DashesOff ==
    (fn_pc = "returned" /\ ~fn_arg.remove_dashes)
        => fn_result = Join(WordsOf(fn_arg.text), <<" ">>)

\* The main loop runs the _update_output at the head of the queue.
OutputHandled ==
    /\ Due("_update_output")
    /\ after_queue' = Tail(after_queue)

\* The _update_output callbacks of the current run that wait in the queue.
PendingOutputs ==
    { i \in 1..Len(after_queue) :
        after_queue[i].fn = "_update_output" /\ after_queue[i].of = "current" }

\* C22: a started run ends in exactly one reported outcome: its thread
\* queues one _update_output, for success with version 1 of the run and
\* for failure with the error text, never two; the main loop shows that
\* text and enables the Humanize button again; and every started run gets
\* there (the thread and the main loop keep running: SpecFair).
C22_RunEndsInOneOutcome ==
    /\ (outcome = "running")
          ~> (outcome # "running" /\ ~OutputPending /\ humanize_btn = "normal")
    /\ [](/\ Cardinality(PendingOutputs) <= 1
          /\ worker.pc # "idle" => PendingOutputs = {}
          /\ \A i \in PendingOutputs :
                IF after_queue[i].args[2]
                THEN /\ outcome = "success"
                     /\ after_queue[i].args[1] = ExpectedVersion(1)
                ELSE /\ outcome \notin {"none", "running", "success"}
                     /\ after_queue[i].args[1] = ErrorText(outcome))
    /\ [][OutputHandled =>
             /\ output_text' = Head(after_queue).args[1]
             /\ humanize_btn' = "normal"]_vars

\* A run whose model call raised was reported: the error text is shown and
\* the Humanize button is enabled again.
C22_Witness ==
    /\ outcome = "GenerationError"
    /\ ~OutputPending
    /\ output_text = ErrorText("GenerationError")
    /\ humanize_btn = "normal"
    /\ progress_label = <<"Failed">>

\* The units of a chunk of the current run, in pass order.
UnitsOfChunk(chunk_index) ==
    SelectSeq(units, LAMBDA u : u.chunk_index = chunk_index)

\* The text of a chunk of the current run, as passed to its first unit.
ChunkText(chunk_index) ==
    LET i == CHOOSE i \in 1..Len(calls) : calls[i].chunk_index = chunk_index
    IN  calls[i].chunk

\* C23: after a successful run started with save_intermediate on, the store
\* holds one entry per chunk, in chunk order, whose "original" is the
\* chunk's text and whose "outputs" are the post-processed candidates (4
\* each) of exactly `passes` passes in pass order; after one started with
\* save_intermediate off the store is empty and the 4 versions exist.
C23_StoreAfterSuccessfulRun ==
    (outcome = "success" /\ all_outputs_of = "current") =>
        IF snapshot.save_intermediate
        THEN /\ Len(intermediate_outputs) = ChunksDone
             /\ \A c \in 1..Len(intermediate_outputs) :
                   LET passes == UnitsOfChunk(c - 1)
                   IN  /\ StoredChunks[c].original = ChunkText(c - 1)
                       /\ Len(StoredChunks[c].outputs) = EffectivePasses(snapshot)
                       /\ Len(StoredChunks[c].outputs) = Len(passes)
                       /\ \A p \in 1..Len(passes) :
                             /\ StoredChunks[c].outputs[p] = passes[p].paraphrases
                             /\ Len(passes[p].paraphrases) = 4
        ELSE /\ intermediate_outputs = <<>>
             /\ Len(all_outputs) = 4

\* C24: settings["custom_passes"] is at least 1 whatever was typed into the
\* custom-passes entry and however the override switch was toggled; so the
\* pass count of every run is at least 1, every model call belongs to such a
\* run, and every chunk the loop has left went through at least one pass.
C24_CustomPassesPositive ==
    /\ settings.custom_passes >= 1
    /\ EffectivePasses(settings) >= 1
    /\ (worker.pc = "split" \/ InLoop) => worker.passes >= 1
    /\ \A i \in 1..Len(calls) : calls[i].passes >= 1
    /\ InLoop => \A c \in 0..(worker.chunk_index - 1) : UnitsOfChunk(c) # <<>>
    /\ worker.pc = "chunk_end" => UnitsOfChunk(worker.chunk_index) # <<>>

\* The override is on with 2 typed into the entry, and a run is in the
\* second pass of a chunk under that count.
C24_Witness ==
    /\ settings.use_custom_passes
    /\ settings.custom_passes = 2
    /\ worker.pc = "save_pass"
    /\ worker.passes = 2
    /\ worker.pass_num = 1
    /\ StrengthPasses(worker.strength) = 1

====
